---- MODULE Spec2Model ----
(***************************************************************************)
(* Model of scripts/publish-interactive.py: the interactive publisher of   *)
(* @fpkit/acss.  main() reads the package version and the current branch,  *)
(* asks for a version bump and a confirmation, and then runs at most       *)
(* max_attempts iterations of: read an OTP, create the release branch,     *)
(* publish with lerna, and either merge the release branch back or clean   *)
(* up and ask whether to retry.                                            *)
(*                                                                         *)
(* Text (branch names, versions, OTP codes, answers) is a sequence of      *)
(* one-character strings; a fixed word of the script ("release/v",         *)
(* "patch", "unknown") is one element of such a sequence.                  *)
(***************************************************************************)
EXTENDS Naturals, Sequences, FiniteSets

VARIABLES
    pc,                 \* position of main()
    current_version,    \* main: current_version
    current_branch,     \* main: current_branch
    version_bump,       \* main: version_bump
    attempt,            \* main: loop variable of the OTP loop
    otp,                \* main: otp
    line,               \* the line input() returned last, stripped
    otp_reads,          \* number of calls of prompt_otp so far
    branch_name,        \* create_release_branch: branch_name
    release_branch,     \* merge_release_branch: its local current_branch
    merge_result,       \* value returned by merge_release_branch
    exit_status,        \* <<status>> once sys.exit(status) was called
    package_json,       \* the file packages/fpkit/package.json
    branches,           \* git: the local branches
    head,               \* git: the branch checked out
    dirty,              \* git: the working tree has uncommitted changes
    log                 \* the external commands run and the yes/no questions
                        \* main() asked so far, in order

vars == <<pc, current_version, current_branch, version_bump, attempt, otp,
          line, otp_reads,
          branch_name, release_branch, merge_result, exit_status,
          package_json, branches, head, dirty, log>>

(***************************************************************************)
(* Bounds of the model.                                                    *)
(***************************************************************************)
\* longest OTP code the operator types
MaxOtpLen == 7
\* largest major version found in package.json
MaxMajor == 2

(***************************************************************************)
(* Program constants.                                                      *)
(***************************************************************************)
max_attempts == 3
OtpLength == 6

\* sys.exit has not been called
NotExited == <<>>
NoText == <<>>
Unknown == <<"unknown">>

(***************************************************************************)
(* Text helpers.                                                           *)
(***************************************************************************)
Digits == <<"0", "1", "2", "3", "4", "5", "6", "7", "8", "9">>

DigitChar(n) == Digits[n + 1]

IsDigit(c) == \E i \in 1..Len(Digits) : Digits[i] = c

\* str.isdigit(): a non-empty string of digits only
isdigit(s) == Len(s) > 0 /\ \A i \in 1..Len(s) : IsDigit(s[i])

\* variant: the pattern without its closing $
MatchesVersion_NoEnd(s) ==
    \E i, j, k \in 1..Len(s) :
        /\ i < j
        /\ j < k
        /\ s[i] = "."
        /\ s[j] = "."
        /\ isdigit(SubSeq(s, 1, i - 1))
        /\ isdigit(SubSeq(s, i + 1, j - 1))
        /\ isdigit(SubSeq(s, j + 1, k))

\* re.match(r'^\d+\.\d+\.\d+$', s)
MatchesVersion(s) ==
    \E i, j \in 1..Len(s) :
        /\ i < j
        /\ s[i] = "."
        /\ s[j] = "."
        /\ isdigit(SubSeq(s, 1, i - 1))
        /\ isdigit(SubSeq(s, i + 1, j - 1))
        /\ isdigit(SubSeq(s, j + 1, Len(s)))

\* str.lower() on the answers the operator can type
lower(s) == [i \in 1..Len(s) |-> IF s[i] = "Y" THEN "y" ELSE s[i]]

\* the text of a version number major.minor.patch as package.json holds it
FormatVersion(v) == <<DigitChar(v[1]), ".", DigitChar(v[2]), ".", DigitChar(v[3])>>

RECURSIVE Repeat(_, _)
Repeat(c, n) == IF n = 0 THEN <<>> ELSE <<c>> \o Repeat(c, n - 1)

(***************************************************************************)
(* Inputs of the operator and of the environment.                          *)
(***************************************************************************)
PackageVersions == {<<m, 0, 0>> : m \in 1..MaxMajor}

StartBranches == {<<"main">>, <<"feature">>}

DefaultBranch == <<"main">>

ChoiceInputs == {<<"1">>, <<"2">>, <<"3">>, <<"4">>, <<"5">>}

YesNoInputs == {<<"y">>, <<"Y">>, <<"n">>, NoText}

VersionInputs ==
    {<<"3", ".", "1", ".", "0">>,
     <<"1", "0", ".", "2", ".", "3">>,
     <<"3", ".", "1">>,
     <<"3", ".", ".", "0">>,
     <<"3", ".", "1", ".", "0", ".", "1">>,
     <<"3", ".", "1", ".", "0", "-", "r", "c">>,
     <<"v", "3", ".", "1", ".", "0">>,
     NoText}

OtpInputs ==
    {Repeat("1", n) : n \in (OtpLength - 1)..MaxOtpLen}
        \cup {Repeat("1", OtpLength - 1) \o <<"a">>, Repeat("2", OtpLength)}

PackageFiles ==
    {[ok |-> TRUE, version |-> v] : v \in PackageVersions}
        \cup {[ok |-> FALSE, version |-> <<0, 0, 0>>]}

(***************************************************************************)
(* The external commands.  Each yields the set of results the command can  *)
(* have in the current repository: it may always fail, and it can succeed  *)
(* only when git allows it.                                                *)
(***************************************************************************)
GitFailed == [ok |-> FALSE, branches |-> branches, head |-> head]

\* git checkout -b name
GitCheckoutNew(name) ==
    {GitFailed} \cup
        (IF name \notin branches
            THEN {[ok |-> TRUE, branches |-> branches \cup {name}, head |-> name]}
            ELSE {})

\* git checkout name
GitCheckout(name) ==
    {GitFailed} \cup
        (IF name \in branches
            THEN {[ok |-> TRUE, branches |-> branches, head |-> name]}
            ELSE {})

\* git merge name --no-ff
GitMerge(name) ==
    {GitFailed} \cup
        (IF name \in branches
            THEN {[ok |-> TRUE, branches |-> branches, head |-> head]}
            ELSE {})

\* git branch -d name, git branch -D name
GitBranchDelete(name) ==
    {GitFailed} \cup
        (IF name \in branches /\ name # head
            THEN {[ok |-> TRUE, branches |-> branches \ {name}, head |-> head]}
            ELSE {})

\* one run_command call, as the log records it
Command(by, cmd, arg, code, ok) ==
    [by |-> by, cmd |-> cmd, arg |-> arg, otp |-> code, ok |-> ok,
     at |-> head, attempt |-> attempt]

\* a yes/no question of main(), as the log records it: ok is the answer "y"
Asked(question, yes) == Command("main", "input", question, NoText, yes)

\* run_command of a git command that changes the repository
Run(by, cmd, arg, r) ==
    /\ log' = Append(log, Command(by, cmd, arg, NoText, r.ok))
    /\ branches' = r.branches
    /\ head' = r.head

\* get_current_branch()
get_current_branch(ok) == IF ok THEN head ELSE Unknown

\* get_current_version()
get_current_version == IF package_json.ok THEN FormatVersion(package_json.version) ELSE Unknown

\* sys.exit(status)
Exit(status) == pc' = "done" /\ exit_status' = <<status>>

(***************************************************************************)
(* Initial state: the process has started, nothing was read yet.           *)
(***************************************************************************)
Init ==
    /\ pc = "start"
    /\ current_version = NoText
    /\ current_branch = NoText
    /\ version_bump = NoText
    /\ attempt = 1
    /\ otp = NoText
    /\ line = NoText
    /\ otp_reads = 0
    /\ branch_name = NoText
    /\ release_branch = NoText
    /\ merge_result = "none"
    /\ exit_status = NotExited
    /\ package_json \in PackageFiles
    /\ head \in StartBranches
    /\ branches = {DefaultBranch, head}
    /\ dirty \in BOOLEAN
    /\ log = <<>>

(***************************************************************************)
(* main(), lines 198-203: read the version and the current branch.         *)
(***************************************************************************)
Start ==
    /\ pc = "start"
    /\ \E ok \in BOOLEAN :
        /\ current_branch' = get_current_branch(ok)
        /\ log' = Append(log, Command("get_current_branch", "rev-parse", NoText, NoText, ok))
    /\ current_version' = get_current_version
    /\ pc' = "choice"
    /\ UNCHANGED <<version_bump, attempt, otp, line, otp_reads, branch_name,
                   release_branch, merge_result, exit_status, package_json,
                   branches, head, dirty>>

(***************************************************************************)
(* prompt_version_bump(): the choice, the confirmation of a major bump,    *)
(* the custom version.                                                     *)
(***************************************************************************)
PromptChoice ==
    /\ pc = "choice"
    /\ \E choice \in ChoiceInputs :
        /\ line' = choice
        /\ IF choice = <<"1">> THEN version_bump' = <<"patch">> /\ pc' = "confirm"
           ELSE IF choice = <<"2">> THEN version_bump' = <<"minor">> /\ pc' = "confirm"
           ELSE IF choice = <<"3">> THEN version_bump' = version_bump /\ pc' = "major"
           ELSE IF choice = <<"4">> THEN version_bump' = version_bump /\ pc' = "custom"
           ELSE version_bump' = version_bump /\ pc' = "choice"
    /\ UNCHANGED <<current_version, current_branch, attempt, otp, branch_name,
                   release_branch, merge_result, exit_status, package_json,
                   branches, head, dirty, log, otp_reads>>

\* variant: the confirmation of a major bump defaults to yes
PromptMajor_DefaultYes ==
    /\ pc = "major"
    /\ \E confirm \in YesNoInputs :
        /\ line' = confirm
        /\ IF lower(confirm) # <<"n">>
               THEN version_bump' = <<"major">> /\ pc' = "confirm"
               ELSE version_bump' = version_bump /\ pc' = "choice"
    /\ UNCHANGED <<current_version, current_branch, attempt, otp, branch_name,
                   release_branch, merge_result, exit_status, package_json,
                   branches, head, dirty, log, otp_reads>>

\* lines 99-106
PromptMajor ==
    /\ pc = "major"
    /\ \E confirm \in YesNoInputs :
        /\ line' = confirm
        /\ IF lower(confirm) = <<"y">>
               THEN version_bump' = <<"major">> /\ pc' = "confirm"
               ELSE version_bump' = version_bump /\ pc' = "choice"
    /\ UNCHANGED <<current_version, current_branch, attempt, otp, branch_name,
                   release_branch, merge_result, exit_status, package_json,
                   branches, head, dirty, log, otp_reads>>

PromptCustom ==
    /\ pc = "custom"
    /\ \E version \in VersionInputs :
        /\ line' = version
        /\ IF MatchesVersion(version)
               THEN version_bump' = version /\ pc' = "confirm"
               ELSE version_bump' = version_bump /\ pc' = "choice"
    /\ UNCHANGED <<current_version, current_branch, attempt, otp, branch_name,
                   release_branch, merge_result, exit_status, package_json,
                   branches, head, dirty, log, otp_reads>>

(***************************************************************************)
(* main(), lines 215-219: "Proceed with publish?"                          *)
(***************************************************************************)
Confirm ==
    /\ pc = "confirm"
    /\ \E confirm \in YesNoInputs :
        /\ line' = confirm
        /\ log' = Append(log, Asked(<<"Proceed with publish?">>, lower(confirm) = <<"y">>))
        /\ IF lower(confirm) # <<"y">>
            THEN Exit(0)
            ELSE pc' = "otp" /\ exit_status' = exit_status
    /\ attempt' = 1
    /\ UNCHANGED <<current_version, current_branch, version_bump, otp, branch_name,
                   release_branch, merge_result, package_json, branches, head,
                   dirty, otp_reads>>

(***************************************************************************)
(* The loop "for attempt in range(1, max_attempts + 1)".                   *)
(***************************************************************************)
\* variant: the range of the loop is one too long
LoopHasNext_OneMore(a) == a <= max_attempts

\* the loop has another iteration after iteration a
LoopHasNext(a) == a < max_attempts

\* the end of an iteration: the next one, or lines 269-270 after the loop
NextIteration ==
    IF LoopHasNext(attempt)
        THEN attempt' = attempt + 1 /\ pc' = "otp" /\ exit_status' = exit_status
        ELSE attempt' = attempt /\ Exit(1)

\* variant: line 227 tests the length only
OtpRejected_LengthOnly(code) == Len(code) # OtpLength

\* variant: "and" for "or" in the test of line 227
OtpRejected_And(code) == Len(code) # OtpLength /\ ~isdigit(code)

\* line 227: the code is refused
OtpRejected(code) == Len(code) # OtpLength \/ ~isdigit(code)

\* lines 225-229: read a code; a refused one ends the iteration
ReadOtp ==
    /\ pc = "otp"
    /\ \E code \in OtpInputs :
        /\ line' = code
        /\ otp' = code
        /\ IF OtpRejected(code)
            THEN NextIteration
            ELSE attempt' = attempt /\ pc' = "create" /\ exit_status' = exit_status
    /\ otp_reads' = otp_reads + 1
    /\ UNCHANGED <<current_version, current_branch, version_bump, branch_name,
                   release_branch, merge_result, package_json, branches, head,
                   dirty, log>>

(***************************************************************************)
(* create_release_branch(version), called at line 232.                     *)
(***************************************************************************)
\* line 232: the version main() passes to create_release_branch
ReleaseVersion == IF MatchesVersion(version_bump) THEN version_bump ELSE current_version

\* lines 87-89: the version a bump of the package's version gives
TargetVersion ==
    LET v == package_json.version IN
    IF version_bump = <<"patch">> THEN FormatVersion(<<v[1], v[2], v[3] + 1>>)
    ELSE IF version_bump = <<"minor">> THEN FormatVersion(<<v[1], v[2] + 1, 0>>)
    ELSE IF version_bump = <<"major">> THEN FormatVersion(<<v[1] + 1, 0, 0>>)
    ELSE version_bump

\* line 124: f"release/v{version}"
BranchName(version) == <<"release/v">> \o version

\* line 262: the branch the cleanup deletes, f"release/v{version_bump}"
CleanupTarget == <<"release/v">> \o version_bump

\* variant: main() does not test what create_release_branch returned
CreateReleaseBranch_Unchecked ==
    /\ pc = "create"
    /\ branch_name' = BranchName(ReleaseVersion)
    /\ \E r \in GitCheckoutNew(BranchName(ReleaseVersion)) :
        Run("create_release_branch", "checkout -b", BranchName(ReleaseVersion), r)
    /\ pc' = "publish"
    /\ UNCHANGED <<current_version, current_branch, version_bump, attempt, otp,
                   release_branch, merge_result, package_json, dirty, line,
                   otp_reads, exit_status>>

\* lines 122-134 and 232-233
CreateReleaseBranch ==
    /\ pc = "create"
    /\ branch_name' = BranchName(ReleaseVersion)
    /\ \E r \in GitCheckoutNew(BranchName(ReleaseVersion)) :
        /\ Run("create_release_branch", "checkout -b", BranchName(ReleaseVersion), r)
        /\ IF r.ok
            THEN pc' = "publish" /\ exit_status' = exit_status
            ELSE Exit(1)
    /\ UNCHANGED <<current_version, current_branch, version_bump, attempt, otp,
                   release_branch, merge_result, package_json, dirty, line, otp_reads>>

(***************************************************************************)
(* publish_with_lerna(version_bump, otp) and what main() does with its     *)
(* result, lines 238-258.                                                  *)
(***************************************************************************)
\* variant: main() goes on to the merge whatever publish_with_lerna returned
AfterPublish_AlwaysMerge(ok) ==
    IF MatchesVersion(version_bump) THEN "verify" ELSE "merge"

\* variant: after a failed publish main() creates the branch again at once
AfterPublish_RetryCreate(ok) ==
    IF ok
        THEN IF MatchesVersion(version_bump) THEN "verify" ELSE "merge"
        ELSE "create"

\* where main() goes after publish_with_lerna returned ok
AfterPublish(ok) ==
    IF ok
        THEN IF MatchesVersion(version_bump) THEN "verify" ELSE "merge"
        ELSE "cleanup"

Publish ==
    /\ pc = "publish"
    /\ \E ok \in BOOLEAN :
        /\ log' = Append(log, Command("publish_with_lerna", "lerna publish",
                                      version_bump, otp, ok))
        /\ pc' = AfterPublish(ok)
    /\ UNCHANGED <<current_version, current_branch, version_bump, attempt, otp,
                   branch_name, release_branch, merge_result, exit_status,
                   package_json, branches, head, dirty, line, otp_reads>>

\* verify_publication(version_bump): main() ignores its result
Verify ==
    /\ pc = "verify"
    /\ \E ok \in BOOLEAN :
        log' = Append(log, Command("verify_publication", "npm view", NoText, NoText, ok))
    /\ pc' = "merge"
    /\ UNCHANGED <<current_version, current_branch, version_bump, attempt, otp,
                   branch_name, release_branch, merge_result, exit_status,
                   package_json, branches, head, dirty, line, otp_reads>>

(***************************************************************************)
(* merge_release_branch(current_branch), called at line 248; main() drops  *)
(* its result and exits with status 0 at line 256.                         *)
(***************************************************************************)
\* merge_release_branch returns result to main(), which goes on to line 256
MergeReturn(result) == merge_result' = result /\ Exit(0)

\* line 169
MergeStart ==
    /\ pc = "merge"
    /\ \E ok \in BOOLEAN :
        /\ release_branch' = get_current_branch(ok)
        /\ log' = Append(log, Command("get_current_branch", "rev-parse", NoText, NoText, ok))
    /\ pc' = "merge_checkout"
    /\ UNCHANGED <<current_version, current_branch, version_bump, attempt, otp,
                   branch_name, merge_result, exit_status, package_json,
                   branches, head, dirty, line, otp_reads>>

\* variant: the merge-back checks out the default branch
MergeCheckout_Default ==
    /\ pc = "merge_checkout"
    /\ \E r \in GitCheckout(DefaultBranch) :
        /\ Run("merge_release_branch", "checkout", DefaultBranch, r)
        /\ IF r.ok
            THEN pc' = "merge_merge" /\ UNCHANGED <<merge_result, exit_status>>
            ELSE MergeReturn("False")
    /\ UNCHANGED <<current_version, current_branch, version_bump, attempt, otp,
                   branch_name, release_branch, package_json, dirty, line, otp_reads>>

\* lines 174-177
MergeCheckout ==
    /\ pc = "merge_checkout"
    /\ \E r \in GitCheckout(current_branch) :
        /\ Run("merge_release_branch", "checkout", current_branch, r)
        /\ IF r.ok
            THEN pc' = "merge_merge" /\ UNCHANGED <<merge_result, exit_status>>
            ELSE MergeReturn("False")
    /\ UNCHANGED <<current_version, current_branch, version_bump, attempt, otp,
                   branch_name, release_branch, package_json, dirty, line, otp_reads>>

\* variant: a failed merge does not return, the delete of line 188 follows
MergeMerge_FallThrough ==
    /\ pc = "merge_merge"
    /\ \E r \in GitMerge(release_branch) :
        Run("merge_release_branch", "merge --no-ff", release_branch, r)
    /\ pc' = "merge_delete"
    /\ UNCHANGED <<current_version, current_branch, version_bump, attempt, otp,
                   branch_name, release_branch, merge_result, exit_status,
                   package_json, dirty, line, otp_reads>>

\* lines 180-185
MergeMerge ==
    /\ pc = "merge_merge"
    /\ \E r \in GitMerge(release_branch) :
        /\ Run("merge_release_branch", "merge --no-ff", release_branch, r)
        /\ IF r.ok
            THEN pc' = "merge_delete" /\ UNCHANGED <<merge_result, exit_status>>
            ELSE MergeReturn("False")
    /\ UNCHANGED <<current_version, current_branch, version_bump, attempt, otp,
                   branch_name, release_branch, package_json, dirty, line, otp_reads>>

\* variant: the delete of line 188 is left out
MergeDelete_Skip ==
    /\ pc = "merge_delete"
    /\ MergeReturn("True")
    /\ UNCHANGED <<current_version, current_branch, version_bump, attempt, otp,
                   branch_name, release_branch, package_json, dirty, line,
                   otp_reads, branches, head, log>>

\* lines 188-192
MergeDelete ==
    /\ pc = "merge_delete"
    /\ \E r \in GitBranchDelete(release_branch) :
        Run("merge_release_branch", "branch -d", release_branch, r)
    /\ MergeReturn("True")
    /\ UNCHANGED <<current_version, current_branch, version_bump, attempt, otp,
                   branch_name, release_branch, package_json, dirty, line, otp_reads>>

(***************************************************************************)
(* main(), lines 258-267: the cleanup after a failed publish and the       *)
(* retry prompt.                                                           *)
(***************************************************************************)
\* line 261
CleanupCheckout ==
    /\ pc = "cleanup"
    /\ \E r \in GitCheckout(current_branch) :
        Run("main", "checkout", current_branch, r)
    /\ pc' = "cleanup_delete"
    /\ UNCHANGED <<current_version, current_branch, version_bump, attempt, otp,
                   branch_name, release_branch, merge_result, exit_status,
                   package_json, dirty, line, otp_reads>>

\* lines 262-264
CleanupDelete ==
    /\ pc = "cleanup_delete"
    /\ \E r \in GitBranchDelete(CleanupTarget) :
        Run("main", "branch -D", CleanupTarget, r)
    /\ IF attempt < max_attempts
        THEN pc' = "retry" /\ UNCHANGED <<attempt, exit_status>>
        ELSE NextIteration
    /\ UNCHANGED <<current_version, current_branch, version_bump, otp,
                   branch_name, release_branch, merge_result, package_json, dirty, line, otp_reads>>

\* lines 265-267; a break leaves the loop for lines 269-270
Retry ==
    /\ pc = "retry"
    /\ \E retry \in YesNoInputs :
        /\ line' = retry
        /\ log' = Append(log, Asked(<<"Retry?">>, lower(retry) = <<"y">>))
        /\ IF lower(retry) # <<"y">>
            THEN attempt' = attempt /\ Exit(1)
            ELSE NextIteration
    /\ UNCHANGED <<current_version, current_branch, version_bump, otp,
                   branch_name, release_branch, merge_result, package_json,
                   branches, head, dirty, otp_reads>>

Next ==
    \/ Start
    \/ PromptChoice
    \/ PromptMajor
    \/ PromptCustom
    \/ Confirm
    \/ ReadOtp
    \/ CreateReleaseBranch
    \/ Publish
    \/ Verify
    \/ MergeStart
    \/ MergeCheckout
    \/ MergeMerge
    \/ MergeDelete
    \/ CleanupCheckout
    \/ CleanupDelete
    \/ Retry

Spec == Init /\ [][Next]_vars

\* The script is sequential and every step is a blocking call that returns:
\* input() once the operator has typed a line, run_command once the command
\* has ended.  So a step that can be taken is taken.
FairSpec == Spec /\ WF_vars(Next)

(***************************************************************************)
(* What the log holds.                                                     *)
(***************************************************************************)
Entries(cmd) == {i \in DOMAIN log : log[i].cmd = cmd}

Publishes == Entries("lerna publish")

FailedPublishes == {i \in Publishes : ~log[i].ok}

Creates == Entries("checkout -b")

Deletes == Entries("branch -d") \cup Entries("branch -D")

\* a code that is not exactly six numeric digits
Malformed(code) == Len(code) # 6 \/ \E i \in 1..Len(code) : ~IsDigit(code[i])

(***************************************************************************)
(* C1 as written: a malformed OTP leaves the attempt count as it was, so   *)
(* whenever the loop prompts for a code the count is one more than the     *)
(* number of failed publishes.                                             *)
(***************************************************************************)
C1_MalformedCostsNothing ==
    pc = "otp" => attempt = 1 + Cardinality(FailedPublishes)

(***************************************************************************)
(* C1 as amended: reading a malformed OTP runs no command and changes no   *)
(* branch, and it uses up one iteration of the loop: before the last       *)
(* iteration the loop prompts again with the attempt count one higher, in  *)
(* the last iteration the session ends with exit status 1.                 *)
(***************************************************************************)
C1_MalformedUsesAttempt ==
    [][(pc = "otp" /\ Malformed(otp'))
        => /\ log' = log
           /\ branches' = branches
           /\ head' = head
           /\ IF attempt < max_attempts
                THEN pc' = "otp" /\ attempt' = attempt + 1 /\ exit_status' = NotExited
                ELSE pc' = "done" /\ attempt' = attempt /\ exit_status' = <<1>>]_vars

\* three malformed codes in a row have ended the session without a publish
C1_Witness ==
    /\ pc = "done"
    /\ exit_status = <<1>>
    /\ attempt = max_attempts
    /\ Malformed(otp)
    /\ Publishes = {}
    /\ Creates = {}

(***************************************************************************)
(* C2: the attempt count stays within 1..max_attempts; the publish command *)
(* is invoked in distinct iterations, only after failed ones, so at most   *)
(* max_attempts times; and when the loop prompts again right after a       *)
(* failed publish the count is exactly one more than at that publish.      *)
(***************************************************************************)
C2_AttemptsBounded ==
    /\ attempt \in 1..max_attempts
    /\ Cardinality(Publishes) <= max_attempts
    /\ \A i \in Publishes : log[i].attempt \in 1..attempt
    /\ \A i, j \in Publishes :
        i < j => log[i].attempt < log[j].attempt /\ ~log[i].ok
    /\ \A i \in FailedPublishes :
        (pc = "otp" /\ otp = log[i].otp /\ \A j \in Publishes : j <= i)
            => attempt = log[i].attempt + 1

\* the third publish has failed and the session has ended with status 1
C2_Witness ==
    /\ pc = "done"
    /\ exit_status = <<1>>
    /\ Cardinality(FailedPublishes) = max_attempts

(***************************************************************************)
(* C3 as written: the exit status is 0 only after a successful publish     *)
(* with a completed merge-back, or after a cancellation before any         *)
(* command changed the repository; a failed branch creation, an exhausted  *)
(* or abandoned publish and a failed merge-back step all give status 1.    *)
(***************************************************************************)
C3_ExitStatus ==
    pc = "done" =>
        /\ exit_status = <<0>> =>
            \/ (\E i \in Publishes : log[i].ok) /\ merge_result = "True"
            \/ Creates = {} /\ Publishes = {} /\ Deletes = {}
        /\ ((\E i \in Creates : ~log[i].ok)
                \/ merge_result = "False"
                \/ (FailedPublishes # {} /\ \A i \in Publishes : ~log[i].ok))
            => exit_status = <<1>>

(***************************************************************************)
(* C4: once the checkout or the merge of merge_release_branch has failed,  *)
(* no delete is issued any more and the release branch the session created *)
(* is still a local branch.                                                *)
(***************************************************************************)
FailedMergeSteps ==
    {i \in DOMAIN log :
        /\ log[i].by = "merge_release_branch"
        /\ log[i].cmd \in {"checkout", "merge --no-ff"}
        /\ ~log[i].ok}

C4_FailedMergeKeepsBranch ==
    \A i \in FailedMergeSteps :
        /\ \A j \in Deletes : j < i
        /\ branch_name \in branches

\* merge_release_branch has returned False after a failed merge
C4_Witness ==
    /\ pc = "done"
    /\ merge_result = "False"
    /\ \E i \in FailedMergeSteps : log[i].cmd = "merge --no-ff"
    /\ branch_name \in branches

(***************************************************************************)
(* C5 as written: with uncommitted changes in the working tree the session *)
(* never runs the create-and-switch of a release branch.                   *)
(***************************************************************************)
C5_DirtyTreeNoBranch == dirty => Creates = {}

(***************************************************************************)
(* C6 as written: every delete of a branch comes after a successful merge  *)
(* followed by a successful push, or after the operator said yes to a      *)
(* question asked since the last publish.                                  *)
(***************************************************************************)
\* the operator said yes to a question asked after the last publish before j
ConsentBefore(j) ==
    \E k \in Entries("input") :
        /\ k < j
        /\ log[k].ok
        /\ \E p \in FailedPublishes : p < k
        /\ \A p \in Publishes : p < j => p < k

C6_DeleteOnlyAfterMergeAndPush ==
    \A j \in Deletes :
        \/ \E i \in Entries("merge --no-ff"), k \in Entries("push") :
            i < k /\ k < j /\ log[i].ok /\ log[k].ok
        \/ ConsentBefore(j)

(***************************************************************************)
(* C7 as written: every delete names the branch of the create-and-switch   *)
(* that this session ran last before it.                                   *)
(***************************************************************************)
C7_DeleteTargetsCreatedBranch ==
    \A j \in Deletes :
        \E i \in Creates :
            /\ i < j
            /\ \A c \in Creates : c < j => c <= i
            /\ log[j].arg = log[i].arg

(***************************************************************************)
(* C8 as written: the checkout and the forced delete of the cleanup are    *)
(* run only when the retry budget is used up, and only after the operator  *)
(* said yes to a question asked after the failed publish.                  *)
(***************************************************************************)
CleanupCommands ==
    {j \in DOMAIN log : log[j].by = "main" /\ log[j].cmd \in {"checkout", "branch -D"}}

C8_CleanupOnlyExhaustedWithConsent ==
    \A j \in CleanupCommands :
        /\ log[j].attempt = max_attempts
        /\ ConsentBefore(j)

(***************************************************************************)
(* C9 as written: the branch created, and every branch the session later   *)
(* deletes as its release branch, is release/v followed by the version     *)
(* being published.                                                        *)
(***************************************************************************)
C9_BranchNamedAfterTarget ==
    package_json.ok =>
        \A i \in {c \in Creates : log[c].ok} \cup Deletes :
            log[i].arg = <<"release/v">> \o TargetVersion

(***************************************************************************)
(* C10: merge_release_branch runs only after a publish that succeeded,     *)
(* and that publish is the last one: no command of the merge-back follows  *)
(* a failed publish.                                                       *)
(***************************************************************************)
LastPublishSucceeded ==
    \E i \in Publishes : log[i].ok /\ \A p \in Publishes : p <= i

C10_MergeOnlyAfterSuccess ==
    /\ (\E j \in DOMAIN log : log[j].by = "merge_release_branch") => LastPublishSucceeded
    /\ pc \in {"verify", "merge", "merge_checkout", "merge_merge", "merge_delete"}
        => LastPublishSucceeded
    /\ merge_result # "none" => LastPublishSucceeded

\* a publish failed, the retry succeeded and the merge was run
C10_Witness ==
    /\ pc = "done"
    /\ FailedPublishes # {}
    /\ \E j \in Entries("merge --no-ff") : log[j].ok
    /\ merge_result = "True"

(***************************************************************************)
(* C11 as written: the checkout of the merge-back names the default        *)
(* branch of the repository.                                               *)
(***************************************************************************)
MergeBackCommands == {j \in DOMAIN log : log[j].by = "merge_release_branch"}

C11_MergeIntoDefault ==
    \A j \in MergeBackCommands : log[j].cmd = "checkout" => log[j].arg = DefaultBranch

(***************************************************************************)
(* C11 as amended: the checkout of the merge-back names the branch the     *)
(* session was started from, as get_current_branch reported it at the      *)
(* start ("unknown" when that query failed); the merge runs only after     *)
(* that checkout succeeded, on that branch, with --no-ff, and merges the   *)
(* branch get_current_branch reported on entry of merge_release_branch:    *)
(* the release branch just created, or "unknown" when the query failed.    *)
(***************************************************************************)
C11_MergeIntoStartBranch ==
    \A j \in MergeBackCommands :
        /\ log[j].cmd = "checkout" =>
            /\ log[j].arg = current_branch
            /\ log[j].arg = (IF log[1].ok THEN log[1].at ELSE Unknown)
        /\ log[j].cmd # "checkout" =>
            /\ log[j].cmd \in {"merge --no-ff", "branch -d"}
            /\ \E c \in MergeBackCommands :
                /\ c < j
                /\ log[c].cmd = "checkout"
                /\ log[c].ok
                /\ log[j].at = log[c].arg
                /\ log[c - 1].cmd = "rev-parse"
                /\ log[j].arg = (IF log[c - 1].ok THEN branch_name ELSE Unknown)

\* started on a branch that is not the default one, merged back into it
C11_Witness ==
    /\ pc = "done"
    /\ merge_result = "True"
    /\ log[1].ok
    /\ log[1].at # DefaultBranch
    /\ head = log[1].at
    /\ \E j \in Entries("merge --no-ff") : log[j].ok /\ log[j].arg = branch_name

(***************************************************************************)
(* C12: when merge_release_branch has returned True and none of its        *)
(* commands failed, the release branch the session created is no longer a  *)
(* local branch.                                                           *)
(***************************************************************************)
MergeBackSucceeded ==
    /\ pc = "done"
    /\ merge_result = "True"
    /\ \A j \in MergeBackCommands : log[j].ok

C12_MergedBranchIsGone == MergeBackSucceeded => branch_name \notin branches

\* checkout, merge and delete have all succeeded
C12_Witness ==
    /\ MergeBackSucceeded
    /\ \E j \in Entries("branch -d") : log[j].ok /\ log[j].arg = branch_name
    /\ \E j \in Entries("checkout -b") : log[j].ok /\ log[j].arg = branch_name
    /\ branch_name \notin branches

(***************************************************************************)
(* C13: at the confirmation of a major bump, an answer other than y or Y   *)
(* leads back to the prompt for the bump category, with no bump chosen and *)
(* the process still running; the bump becomes "major" only at that        *)
(* confirmation and only on the answer y or Y.                             *)
(***************************************************************************)
Affirmative == {<<"y">>, <<"Y">>}

C13_DeclinedMajorReprompts ==
    [][/\ pc = "major" =>
            IF line' \in Affirmative
                THEN pc' = "confirm" /\ version_bump' = <<"major">>
                ELSE /\ pc' = "choice"
                     /\ version_bump' = version_bump
                     /\ exit_status' = NotExited
       /\ (version_bump' = <<"major">> /\ version_bump # <<"major">>)
            => pc = "major" /\ line' \in Affirmative]_vars

\* the major bump was declined and the category prompt is open again
C13_Witness ==
    /\ pc = "choice"
    /\ line = <<"n">>
    /\ version_bump = NoText
    /\ exit_status = NotExited

(***************************************************************************)
(* C14: once prompt_version_bump has returned, the bump is patch, minor,   *)
(* major or three non-empty runs of digits separated by two dots; and at   *)
(* the prompt for a custom version a literal of that shape is returned as  *)
(* it is, any other leads back to the category prompt with no bump chosen  *)
(* and the process still running.                                          *)
(***************************************************************************)
Dots(s) == {i \in 1..Len(s) : s[i] = "."}

WellFormedVersion(s) ==
    /\ Cardinality(Dots(s)) = 2
    /\ \A i \in 1..Len(s) : s[i] = "." \/ IsDigit(s[i])
    /\ \A i \in Dots(s) : i # 1 /\ i # Len(s) /\ (i + 1) \notin Dots(s)

BumpWords == {<<"patch">>, <<"minor">>, <<"major">>}

C14_ReturnsBumpOrVersion ==
    /\ [](pc \notin {"start", "choice", "major", "custom"}
            => version_bump \in BumpWords \/ WellFormedVersion(version_bump))
    /\ [][pc = "custom" =>
            IF WellFormedVersion(line')
                THEN pc' = "confirm" /\ version_bump' = line'
                ELSE /\ pc' = "choice"
                     /\ version_bump' = version_bump
                     /\ exit_status' = NotExited]_vars

\* a literal with a trailing part was refused and the category prompt is open
C14_Witness ==
    /\ pc = "choice"
    /\ line = <<"3", ".", "1", ".", "0", ".", "1">>
    /\ version_bump = NoText
    /\ exit_status = NotExited

(***************************************************************************)
(* C15 as written, read as what holds once the session has ended: the      *)
(* well-formed code read last was passed to the publish command in the     *)
(* same iteration.  The one exception granted is a create-and-switch that  *)
(* git refused although no branch of that name existed, which is a         *)
(* failure outside the session.                                            *)
(***************************************************************************)
PublishedWith(code, n) ==
    \E i \in Publishes : log[i].otp = code /\ log[i].attempt = n

LastFailedCreateWasFree ==
    /\ Len(log) > 0
    /\ log[Len(log)].cmd = "checkout -b"
    /\ ~log[Len(log)].ok
    /\ log[Len(log)].arg \notin branches

C15_WellFormedOtpIsPublished ==
    (pc = "done" /\ otp # NoText /\ ~Malformed(otp))
        => PublishedWith(otp, attempt) \/ LastFailedCreateWasFree

(***************************************************************************)
(* C16 as written: the session runs the create-and-switch of a release     *)
(* branch at most once.                                                    *)
(***************************************************************************)
C16_CreateAtMostOnce == Cardinality(Creates) <= 1

(***************************************************************************)
(* C16 as amended: the create-and-switch is run inside the loop, at most   *)
(* once per iteration and so at most max_attempts times; a later one       *)
(* follows a create that succeeded and a publish that failed, and names    *)
(* the same branch; and at every moment at most one branch besides the     *)
(* ones the session found exists locally.                                  *)
(***************************************************************************)
C16_OneCreatePerIteration ==
    /\ Cardinality(Creates) <= max_attempts
    /\ \A i, j \in Creates :
        i < j =>
            /\ log[i].attempt < log[j].attempt
            /\ log[i].ok
            /\ log[i].arg = log[j].arg
            /\ \E p \in FailedPublishes : i < p /\ p < j
    /\ branches \ {branch_name} \subseteq ({DefaultBranch} \cup StartBranches)

\* the release branch was created in each of the three iterations
C16_Witness ==
    /\ pc = "done"
    /\ Cardinality({i \in Creates : log[i].ok}) = max_attempts

(***************************************************************************)
(* C17: a failed create-and-switch is the last command of the session: no  *)
(* publish, merge or delete follows it, the session has ended with exit    *)
(* status 1, and the branch checked out is the one that was checked out    *)
(* when the create was issued.                                             *)
(***************************************************************************)
FailedCreates == {i \in Creates : ~log[i].ok}

C17_FailedCreateEndsSession ==
    \A i \in FailedCreates :
        /\ i = Len(log)
        /\ pc = "done"
        /\ exit_status = <<1>>
        /\ head = log[i].at
        /\ merge_result = "none"
        /\ \A p \in Publishes : p < i /\ log[p].attempt < log[i].attempt

\* the create-and-switch of a retry has failed
C17_Witness ==
    /\ pc = "done"
    /\ exit_status = <<1>>
    /\ FailedCreates # {}
    /\ FailedPublishes # {}
    /\ head = log[1].at

(***************************************************************************)
(* C18 as written: when the forced delete of the cleanup is issued, the    *)
(* branch checked out is not the release branch but the branch the session *)
(* started on.                                                             *)
(***************************************************************************)
C18_ForcedDeleteOffReleaseBranch ==
    \A j \in Entries("branch -D") :
        /\ log[j].at # branch_name
        /\ log[j].at = log[1].at

(***************************************************************************)
(* C19: every invocation of the publish command carries a code of exactly  *)
(* six digits, directly follows a create-and-switch that succeeded, and    *)
(* runs on the branch that create made, which is not the branch the        *)
(* session started on.                                                     *)
(***************************************************************************)
C19_PublishSixDigitsOnReleaseBranch ==
    \A i \in Publishes :
        /\ ~Malformed(log[i].otp)
        /\ Len(log[i].otp) = 6
        /\ i > 1
        /\ log[i - 1].cmd = "checkout -b"
        /\ log[i - 1].ok
        /\ log[i].at = log[i - 1].arg
        /\ log[i].at # log[1].at

\* a publish in the second iteration, with the second code, on the release branch
C19_Witness ==
    \E i \in Publishes :
        /\ log[i].attempt = 2
        /\ log[i].otp = Repeat("2", 6)
        /\ log[i].at = branch_name
        /\ head = branch_name

(***************************************************************************)
(* C20: prompt_otp is called at most max_attempts times; once the operator *)
(* has confirmed, the session ends, and it ends with exit status 0 or 1;   *)
(* and an answer other than y or Y to "Retry?" ends it with status 1 in    *)
(* that step.                                                              *)
(***************************************************************************)
C20_EndsWithinThreeReads ==
    /\ [](otp_reads <= max_attempts)
    /\ [](pc = "done" => exit_status \in {<<0>>, <<1>>})
    /\ (pc = "otp") ~> (pc = "done")
    /\ [][(pc = "retry" /\ line' \notin Affirmative)
            => pc' = "done" /\ exit_status' = <<1>>]_vars

\* three codes were read and the session has ended
C20_Witness ==
    /\ pc = "done"
    /\ otp_reads = max_attempts
    /\ exit_status = <<1>>
    /\ Cardinality(FailedPublishes) = 2

====
